---- MODULE Spec2Model ----
(***************************************************************************)
(* rtlamr-collect (src/main.go): reads rtlamr's JSON lines from stdin,     *)
(* turns them into InfluxDB points and keeps, per differential meter, the  *)
(* last (time, interval) in a bbolt store mirrored in memory, so that      *)
(* intervals already written are not written again.                        *)
(*                                                                         *)
(* Time is counted in ticks of 1/16 s, the granularity of an IDM's         *)
(* TransmitTimeOffset (main.go:73-74); every time of the model is a        *)
(* multiple of it.                                                         *)
(***************************************************************************)
EXTENDS Integers, Sequences, FiniteSets, TLC

(* ------------------------------------------------------------------ *)
(* Bounds of the model                                                 *)
(* ------------------------------------------------------------------ *)

\* Lines read from stdin, over all runs of the process.
MaxLines == 2

\* Runs of the process (main is started at most this many times).
MaxRuns == 2

\* Longest DifferentialConsumptionIntervals list of an input line.
MaxReadings == 3

(* ------------------------------------------------------------------ *)
(* Program constants                                                   *)
(* ------------------------------------------------------------------ *)

\* time.Second / 16 is one tick: a second is 16 ticks.
TicksPerSecond == 16

\* const threshold = 30 * time.Second
threshold == 30 * TicksPerSecond

\* 5 * time.Minute, the length of one differential interval.
FiveMinutes == 5 * 60 * TicksPerSecond

\* interval := uint(...) % 256
IntervalModulus == 256

(* ------------------------------------------------------------------ *)
(* Input lines                                                         *)
(* ------------------------------------------------------------------ *)

\* LogMessage.Type values: the six the switch of main knows, and one it does not.
CumulativeTypes == {"SCM", "SCM+", "R900", "R900BCD"}
DifferentialTypes == {"IDM", "NetIDM"}
KnownTypes == CumulativeTypes \cup DifferentialTypes
Types == KnownTypes \cup {"GPS"}

\* LogMessage.Time values: three arrivals five minutes apart.
Times == {96000, 96000 + FiveMinutes, 96000 + 2 * FiveMinutes}

\* (serial, commodity type) of the meters heard.
Endpoints == {<<1, 7>>, <<1, 8>>, <<2, 12>>}

\* The differential readings of a message with n intervals: newest first.
Readings(n) == [i \in 1..n |-> 10 + i]

\* PowerOutageFlags: six bytes, no outage.
NoOutage == <<0, 0, 0, 0, 0, 0>>

\* What json.Unmarshal(logMsg.Message, new(IDM)) decodes.
IDMMsg(id, type, tt, ix, n, outage) ==
    [EndpointID |-> id, EndpointType |-> type, TransmitTime |-> tt,
     IntervalIdx |-> ix, IntervalDiff |-> Readings(n), Outage |-> outage,
     IDMConsumption |-> 1000, NetIDMConsumption |-> 2000,
     NetIDMConsumptionNet |-> 3000, NetIDMGeneration |-> 4000]

\* The payload that did not decode, and the payload of a line that has none.
NoMsg == [EndpointID |-> 0]

\* A line of stdin, as json.Unmarshal sees it: env says whether the envelope
\* parses, payload whether Message parses under the type's struct.
Line(t, type, p) == [env |-> TRUE, Time |-> t, Type |-> type, payload |-> TRUE, msg |-> p]

\* ConsumptionIntervalCount of the meter followed through time: its counter steps
\* once per five minutes and wraps from 255 to 0 between the first two arrivals.
IdxAt(t) == (255 + (t - 96000) \div FiveMinutes) % IntervalModulus

\* The IDM meter 1/7 followed through time: every arrival and every length, each
\* sent 2.5 s (40 ticks) into its interval.
PeriodicLines ==
    { Line(t, "IDM", IDMMsg(1, 7, 40, IdxAt(t), n, NoOutage)) :
        t \in Times, n \in 0..MaxReadings }

\* One message of every meter under either differential type.
MeterLines ==
    { Line(96000, ty, IDMMsg(e[1], e[2], 0, 0, 2, NoOutage)) :
        ty \in DifferentialTypes, e \in Endpoints }

\* The cumulative messages.
CumulativeLines ==
    { Line(t, "SCM", [EndpointID |-> 1, EndpointType |-> 7, Consumption |-> 500]) :
        t \in {96000, 96000 + FiveMinutes} }
    \cup
    { Line(96000, "SCM+", [EndpointID |-> 2, EndpointType |-> 12, Consumption |-> 550]) }
    \cup
    { Line(96000, ty, [EndpointID |-> 1, EndpointType |-> 3, Consumption |-> 600,
                       NoUse |-> 1, BackFlow |-> 2, Leak |-> 3, LeakNow |-> 0]) :
        ty \in {"R900", "R900BCD"} }

\* A line that is no JSON object, a payload that does not fit its type's struct,
\* and a type the switch of main does not know.
BrokenLines ==
    { [env |-> FALSE, Time |-> 0, Type |-> "", payload |-> FALSE, msg |-> NoMsg],
      [env |-> TRUE, Time |-> 96000, Type |-> "IDM", payload |-> FALSE, msg |-> NoMsg],
      [env |-> TRUE, Time |-> 96000, Type |-> "GPS", payload |-> TRUE, msg |-> NoMsg] }

Lines == PeriodicLines \cup MeterLines \cup CumulativeLines \cup BrokenLines

(* ------------------------------------------------------------------ *)
(* State                                                               *)
(* ------------------------------------------------------------------ *)

VARIABLES
    pc,         \* where main is: "off", "scan", "exit", "fatal", "panic"
    strict,     \* COLLECT_STRICTIDM is defined
    dryRun,     \* COLLECT_INFLUXDB_DRYRUN is defined
    bucket,     \* meters.db holds the bucket "meters"
    kv,         \* the bucket's key/value pairs, as stored bytes
    m,          \* MeterMap.m, the in-memory mirror
    line,       \* the line the last step read
    outcome,    \* what the last step did with it
    pts,        \* the points AddPoints handed to eachFn for it
    sink,       \* api.WritePoint for it: "not_called", "ok", "error"
    updErr,     \* what MeterMap.Update returned for it
    loadErr,    \* the error the last preload met, returned by NewMeterMap or not
    logs,       \* what the last step wrote to the log
    committed,  \* history: the last state each meter's Update committed
    prior,      \* history: what idm.Meters.m[meter] held when the line was read
    same,       \* history: the line equals the line read just before it
    prevOK,     \* history: the Update of the step before committed
    ledger,     \* history: how often each (meter, slot, time) reading was emitted
    heard,      \* history: the (meter, slot, time) readings of the messages accepted
    chain,      \* history: what the differential messages accepted so far were like
    nread,      \* lines read so far
    runs,       \* times main was started
    stdin       \* the standard input of the run, where the lines to come are
                \* fixed when the process starts; kept empty where any line
                \* may come next

vars == <<pc, strict, dryRun, bucket, kv, m, line, outcome, pts, sink,
          updErr, loadErr, logs, committed, prior, same, prevOK, ledger, heard, chain,
          nread, runs, stdin>>

(* ------------------------------------------------------------------ *)
(* Values                                                              *)
(* ------------------------------------------------------------------ *)

\* A map with no entry (map[Meter]LastMessage{}, an empty bucket).
EmptyMap == [x \in {} |-> x]

\* The value of `line` after a step that read no line.
NoLine == [env |-> FALSE, Time |-> 0, Type |-> "-", payload |-> FALSE, msg |-> NoMsg]

\* Standard input with nothing on it: input is what the run is given, unread what
\* the scanner has yet to hand out, handled the lines the loop body has run on.
NoInput == [input |-> <<>>, unread |-> <<>>, handled |-> <<>>]

\* A Meter without the protocol: every meter is filed under "IDM".
MeterAnyProtocol(id, type, protocol) ==
    [EndpointID |-> id, EndpointType |-> type, Protocol |-> "IDM"]

\* type Meter struct { EndpointID; EndpointType; Protocol }
Meter(id, type, protocol) ==
    [EndpointID |-> id, EndpointType |-> type, Protocol |-> protocol]

\* type LastMessage struct { Time; Interval }
LastMessage(t, interval) == [Time |-> t, Interval |-> interval]

\* strconv.Itoa of a non-negative int: its decimal digits, most significant first.
RECURSIVE Itoa(_)
Itoa(n) ==
    IF n < 10 THEN <<n>> ELSE Append(Itoa(n \div 10), n % 10)

(* ------------------------------------------------------------------ *)
(* msgpack: the bytes of a key and of a value                          *)
(* ------------------------------------------------------------------ *)

\* Nanoseconds in a tick (time.Second / 16).
NanosPerTick == 62500000

\* Bytes no msgpack.Unmarshal decodes.
Garbage == <<"garbage">>

\* msgpack.Marshal(meter): the three fields in declaration order.
MarshalMeter(meter) ==
    <<meter.EndpointID, meter.EndpointType, meter.Protocol>>

\* msgpack.Unmarshal(k, &meter)
UnmarshalMeter(k) ==
    IF Len(k) = 3
    THEN [ok |-> TRUE, meter |-> Meter(k[1], k[2], k[3])]
    ELSE [ok |-> FALSE, meter |-> Meter(0, 0, "")]

\* A value encoding that keeps whole seconds only.
MarshalLastMessageSeconds(msg) ==
    <<msg.Time \div TicksPerSecond, 0, msg.Interval>>

\* msgpack.Marshal(msg): the time as seconds and nanoseconds, then the interval.
MarshalLastMessage(msg) ==
    <<msg.Time \div TicksPerSecond,
      (msg.Time % TicksPerSecond) * NanosPerTick,
      msg.Interval>>

\* msgpack.Unmarshal(v, &msg)
UnmarshalLastMessage(v) ==
    IF Len(v) = 3
    THEN [ok |-> TRUE,
          msg |-> LastMessage(v[1] * TicksPerSecond + v[2] \div NanosPerTick, v[3])]
    ELSE [ok |-> FALSE, msg |-> LastMessage(0, 0)]

\* The order of two keys' bytes, which is the order bbolt iterates in: the serial,
\* then the type (msgpack's unsigned integers sort as numbers), then the protocol
\* string, whose first byte is its length.
KeyLess(k1, k2) ==
    \/ k1[1] < k2[1]
    \/ k1[1] = k2[1] /\ k1[2] < k2[2]
    \/ k1[1] = k2[1] /\ k1[2] = k2[2] /\ k1[3] = "IDM" /\ k2[3] = "NetIDM"

\* The keys of a bucket in iteration order.
RECURSIVE SortedKeys(_)
SortedKeys(ks) ==
    IF ks = {} THEN <<>>
    ELSE LET first == CHOOSE k \in ks : \A o \in ks \ {k} : KeyLess(k, o)
         IN  <<first>> \o SortedKeys(ks \ {first})

(* ------------------------------------------------------------------ *)
(* MeterMap                                                            *)
(* ------------------------------------------------------------------ *)

\* An iteration that ends after the first pair of the bucket.
ForEachFirstOnly(keys, store, acc) ==
    IF keys = <<>> THEN [m |-> acc, err |-> "nil"]
    ELSE LET k == Head(keys)
             dk == UnmarshalMeter(k)
             dv == UnmarshalLastMessage(store[k])
         IN  IF ~dk.ok \/ ~dv.ok
             THEN [m |-> acc, err |-> "msgpack.Unmarshal"]
             ELSE [m |-> (dk.meter :> dv.msg) @@ acc, err |-> "nil"]

\* bkt.ForEach(fn) of NewMeterMap: each pair is decoded into the mirror; the first
\* pair that does not decode ends the iteration with an error.
RECURSIVE ForEach(_, _, _)
ForEach(keys, store, acc) ==
    IF keys = <<>> THEN [m |-> acc, err |-> "nil"]
    ELSE LET k == Head(keys)
             dk == UnmarshalMeter(k)
             dv == UnmarshalLastMessage(store[k])
         IN  IF ~dk.ok \/ ~dv.ok
             THEN [m |-> acc, err |-> "msgpack.Unmarshal"]
             ELSE ForEach(Tail(keys), store, (dk.meter :> dv.msg) @@ acc)

\* NewMeterMap("meters.db"): the mirror it builds and the error it returns. The
\* error of ForEach is assigned to err inside the View closure, which then returns
\* nil; View's nil result overwrites it (lost is that overwritten error).
NewMeterMap(openOK, hasBucket, store) ==
    IF ~openOK THEN [m |-> EmptyMap, err |-> "bbolt.Open", lost |-> "nil"]
    ELSE IF ~hasBucket THEN [m |-> EmptyMap, err |-> "nil", lost |-> "nil"]
    ELSE LET each == ForEach(SortedKeys(DOMAIN store), store, EmptyMap)
         IN  [m |-> each.m, err |-> "nil", lost |-> each.err]

\* The lookup result for a meter the mirror does not hold: the zero LastMessage.
Unseen == [seen |-> FALSE, state |-> LastMessage(0, 0)]

\* state, seen := idm.Meters.m[meter]
Lookup(mirror, meter) ==
    IF meter \in DOMAIN mirror
    THEN [seen |-> TRUE, state |-> mirror[meter]]
    ELSE Unseen

\* What can go wrong in the transaction of MeterMap.Update: one of the errors the
\* function given to db.Update returns, or a failed commit. Each rolls the
\* transaction back, runs no OnCommit handler and comes back as the error of
\* db.Update.
Faults == {"none", "tx.CreateBucketIfNotExists", "msgpack.Marshal", "bkt.Put",
           "tx.Commit"}

\* Update with the mirror written in the transaction's function instead of in
\* its OnCommit handler: it is written whether or not the transaction commits.
UpdateMirrorFirst(hasBucket, store, mirror, meter, msg, fault) ==
    IF fault = "none"
    THEN [bucket |-> TRUE,
          kv |-> (MarshalMeter(meter) :> MarshalLastMessage(msg)) @@ store,
          m |-> (meter :> msg) @@ mirror,
          err |-> "nil"]
    ELSE [bucket |-> hasBucket, kv |-> store, m |-> (meter :> msg) @@ mirror,
          err |-> "m.db.View: " \o fault]

\* Update keeping the newest state by timestamp: a message older than the state
\* the mirror holds is not stored.
UpdateIfNewer(hasBucket, store, mirror, meter, msg, fault) ==
    IF fault # "none"
    THEN [bucket |-> hasBucket, kv |-> store, m |-> mirror,
          err |-> "m.db.View: " \o fault]
    ELSE IF meter \in DOMAIN mirror /\ mirror[meter].Time > msg.Time
    THEN [bucket |-> hasBucket, kv |-> store, m |-> mirror, err |-> "nil"]
    ELSE [bucket |-> TRUE,
          kv |-> (MarshalMeter(meter) :> MarshalLastMessage(msg)) @@ store,
          m |-> (meter :> msg) @@ mirror,
          err |-> "nil"]

\* Update without its OnCommit handler: the pair is stored and the mirror is left
\* as it was.
UpdateStoreOnly(hasBucket, store, mirror, meter, msg, fault) ==
    IF fault = "none"
    THEN [bucket |-> TRUE,
          kv |-> (MarshalMeter(meter) :> MarshalLastMessage(msg)) @@ store,
          m |-> mirror,
          err |-> "nil"]
    ELSE [bucket |-> hasBucket, kv |-> store, m |-> mirror,
          err |-> "m.db.View: " \o fault]

\* MeterMap.Update(meter, msg): the store and the mirror after it and the error it
\* returns. The OnCommit handler, the only writer of the mirror, runs after a
\* commit; a transaction that fails is rolled back.
Update(hasBucket, store, mirror, meter, msg, fault) ==
    IF fault = "none"
    THEN [bucket |-> TRUE,
          kv |-> (MarshalMeter(meter) :> MarshalLastMessage(msg)) @@ store,
          m |-> (meter :> msg) @@ mirror,
          err |-> "nil"]
    ELSE [bucket |-> hasBucket, kv |-> store, m |-> mirror,
          err |-> "m.db.View: " \o fault]

(* ------------------------------------------------------------------ *)
(* AddPoints                                                           *)
(* ------------------------------------------------------------------ *)

\* The callback main passes to AddPoints: write.NewPoint copies the tags and the
\* fields it is given into a point of its own, which is appended to pts.
EachFn(acc, t, tags, fields) ==
    Append(acc, [t |-> t, tags |-> tags, fields |-> fields])

\* The tags every AddPoints builds.
Tags(protocol, msgType, endpointType, endpointID) ==
    [protocol |-> protocol, msg_type |-> msgType,
     endpoint_type |-> Itoa(endpointType), endpoint_id |-> Itoa(endpointID)]

\* SCM.AddPoints as it would be with the time of IDM's first interval point: five
\* minutes before the arrival.
SCMAddPointsIntervalTime(scm, msg) ==
    EachFn(<<>>, msg.Time - FiveMinutes,
           Tags(msg.Type, "cumulative", scm.EndpointType, scm.EndpointID),
           [consumption |-> scm.Consumption])

\* SCM.AddPoints and SCMPlus.AddPoints
SCMAddPoints(scm, msg) ==
    EachFn(<<>>, msg.Time,
           Tags(msg.Type, "cumulative", scm.EndpointType, scm.EndpointID),
           [consumption |-> scm.Consumption])

\* R900.AddPoints with the field of an SCM only.
R900AddPointsConsumptionOnly(r900, msg) ==
    EachFn(<<>>, msg.Time,
           Tags(msg.Type, "cumulative", r900.EndpointType, r900.EndpointID),
           [consumption |-> r900.Consumption])

\* R900.AddPoints
R900AddPoints(r900, msg) ==
    EachFn(<<>>, msg.Time,
           Tags(msg.Type, "cumulative", r900.EndpointType, r900.EndpointID),
           [consumption |-> r900.Consumption, nouse |-> r900.NoUse,
            backflow |-> r900.BackFlow, leak |-> r900.Leak,
            leak_now |-> r900.LeakNow])

\* The offset with the division done first: whole seconds, the sixteenths lost.
IntervalOffsetWholeSeconds(idm) == (idm.TransmitTime \div 16) * TicksPerSecond

\* intervalOffset := time.Duration(idm.TransmitTime) * time.Second / 16, in ticks
IntervalOffset(idm) == (idm.TransmitTime * TicksPerSecond) \div 16

\* msg.Time.Add(-intervalOffset): the time the newest interval ended.
AnchorTime(idm, msg) == msg.Time - IntervalOffset(idm)

\* outageBytes := make([]uint8, 8); copy(outageBytes[2:], idm.Outage)
OutageBytes(outage) ==
    [i \in 1..8 |-> IF i > 2 /\ i - 2 <= Len(outage) THEN outage[i - 2] ELSE 0]

RECURSIVE Pow2(_)
Pow2(n) == IF n = 0 THEN 1 ELSE 2 * Pow2(n - 1)

\* The outage bit as it would be with the shift one longer, 47 - idx: the reading
\* idx is paired with the bit above its own.
OutageBitShift47(outage, idx) ==
    LET shift == 47 - idx
    IN  IF shift < 0 THEN 0
        ELSE (OutageBytes(outage)[8 - (shift \div 8)] \div Pow2(shift % 8)) % 2

\* (binary.BigEndian.Uint64(outageBytes) >> uint(46-idx)) & 1: a shift by 64 or
\* more (46-idx negative, converted to uint) leaves 0.
OutageBit(outage, idx) ==
    LET shift == 46 - idx
    IN  IF shift < 0 THEN 0
        ELSE (OutageBytes(outage)[8 - (shift \div 8)] \div Pow2(shift % 8)) % 2

\* Bits of int and uint on the build (32 on a 32-bit one).
UintBits == 64

\* 2^n mod k, by squaring, so that no intermediate value exceeds k * k.
RECURSIVE Pow2Mod(_, _)
Pow2Mod(n, k) ==
    IF n = 0 THEN 1 % k
    ELSE IF n % 2 = 0 THEN (Pow2Mod(n \div 2, k) * Pow2Mod(n \div 2, k)) % k
    ELSE (2 * Pow2Mod(n - 1, k)) % k

\* What the conversion to uint adds to a negative int, as far as the remainder by
\* 256 sees it: 2^UintBits mod 256.
UintWrap == Pow2Mod(UintBits, IntervalModulus)

\* The slot with the remainder of the signed difference, as Go computes % on an
\* int: a negative difference keeps its sign.
IntervalSigned(idm, idx) ==
    LET x == idm.IntervalIdx - idx
    IN  IF x >= 0 THEN x % IntervalModulus ELSE 0 - ((0 - x) % IntervalModulus)

\* interval := uint(int(idm.IntervalIdx)-idx) % 256. The conversion to uint makes
\* 2^UintBits + x of a negative x; its remainder is taken from the remainders of
\* the two terms.
Interval(idm, idx) ==
    LET x == idm.IntervalIdx - idx
    IN  IF x >= 0 THEN x % IntervalModulus
        ELSE (UintWrap
              + (IntervalModulus - ((0 - x) % IntervalModulus))) % IntervalModulus

\* intervalTime := msg.Time.Add(-time.Duration(idx)*5*time.Minute - intervalOffset)
IntervalTime(idm, msg, idx) == msg.Time - idx * FiveMinutes - IntervalOffset(idm)

\* The test of old data without `seen` and without the time: a meter never seen
\* is compared with the zero LastMessage, whose Interval is 0.
OldDataSlotOnly(idm, msg, idx, seen, state) ==
    Interval(idm, idx) = state.Interval

\* The test of old data with the lower limit at 0 instead of -threshold: an
\* interval stored at exactly its own time is not old.
OldDataAfterOnly(idm, msg, idx, seen, state) ==
    /\ seen
    /\ Interval(idm, idx) = state.Interval
    /\ LET diff == state.Time - IntervalTime(idm, msg, idx)
       IN  diff > 0 /\ diff < threshold

\* The test of old data with the limits included: an interval exactly threshold
\* away from the stored time is old.
OldDataInclusive(idm, msg, idx, seen, state) ==
    /\ seen
    /\ Interval(idm, idx) = state.Interval
    /\ LET diff == state.Time - IntervalTime(idm, msg, idx)
       IN  diff >= -threshold /\ diff <= threshold

\* seen && interval == state.Interval && diff > -threshold && diff < threshold,
\* with diff := state.Time.Sub(intervalTime)
OldData(idm, msg, idx, seen, state) ==
    /\ seen
    /\ Interval(idm, idx) = state.Interval
    /\ LET diff == state.Time - IntervalTime(idm, msg, idx)
       IN  diff > -threshold /\ diff < threshold

\* The fields of the point of the differential interval idx.
IntervalFields(idm, idx) ==
    IF OutageBit(idm.Outage, idx) = 1
    THEN [consumption |-> idm.IntervalDiff[idx + 1], interval |-> Interval(idm, idx),
          outage |-> 1]
    ELSE [consumption |-> idm.IntervalDiff[idx + 1], interval |-> Interval(idm, idx)]

\* The loop with `continue` where the code has `return`: an interval that is old
\* data is passed over and the older ones are still looked at.
RECURSIVE IntervalLoopContinue(_, _, _, _, _, _)
IntervalLoopContinue(idm, msg, seen, state, idx, acc) ==
    IF idx >= Len(idm.IntervalDiff) THEN acc
    ELSE IF OldData(idm, msg, idx, seen, state)
    THEN IntervalLoopContinue(idm, msg, seen, state, idx + 1, acc)
    ELSE IntervalLoopContinue(idm, msg, seen, state, idx + 1,
            EachFn(acc, IntervalTime(idm, msg, idx),
                   Tags(msg.Type, "differential", idm.EndpointType, idm.EndpointID),
                   IntervalFields(idm, idx)))

\* The iteration at which the loop over idm.IntervalDiff that was entered at idx
\* returns: the first interval from idx on that is old data, or the end of the
\* range.
LoopReturn(idm, msg, seen, state, idx) ==
    LET old == { j \in idx..Len(idm.IntervalDiff) - 1 : OldData(idm, msg, j, seen, state) }
    IN  IF old = {} THEN Len(idm.IntervalDiff)
        ELSE CHOOSE j \in old : \A k \in old : j <= k

\* The loop handing on its points oldest first: the iterations before the return
\* in the reverse order.
IntervalLoopOldestFirst(idm, msg, seen, state, idx, acc) ==
    acc \o [ j \in 1..LoopReturn(idm, msg, seen, state, idx) - idx |->
                EachFn(<<>>,
                       IntervalTime(idm, msg, LoopReturn(idm, msg, seen, state, idx) - j),
                       Tags(msg.Type, "differential", idm.EndpointType, idm.EndpointID),
                       IntervalFields(idm, LoopReturn(idm, msg, seen, state, idx) - j))[1] ]

\* for idx, usage := range idm.IntervalDiff { ... }: returns at the first interval
\* that is old data; every iteration before it hands its point to eachFn, in
\* order. (Written over the iterations rather than by recursion, so that the 47
\* intervals of a real message are evaluated in bounded depth.)
IntervalLoop(idm, msg, seen, state, idx, acc) ==
    acc \o [ j \in 1..LoopReturn(idm, msg, seen, state, idx) - idx |->
                EachFn(<<>>, IntervalTime(idm, msg, idx + j - 1),
                       Tags(msg.Type, "differential", idm.EndpointType, idm.EndpointID),
                       IntervalFields(idm, idx + j - 1))[1] ]

\* The cumulative fields without the test of msg.Type: those of an IDM always.
CumulativeFieldsIDMOnly(idm, msg) ==
    [consumption |-> idm.IDMConsumption]

\* The fields of the cumulative point of an IDM or a NetIDM.
CumulativeFields(idm, msg) ==
    IF msg.Type = "NetIDM"
    THEN [consumption |-> idm.NetIDMConsumption,
          generation |-> idm.NetIDMGeneration,
          consumption_net |-> idm.NetIDMConsumptionNet]
    ELSE [consumption |-> idm.IDMConsumption]

\* IDM.AddPoints as it would be if the point kept the tags map it is given
\* instead of copying it: the cumulative point sees msg_type set to
\* "differential" afterwards.
IDMAddPointsSharedTags(idm, msg, hasBucket, store, mirror, fault) ==
    LET meter == Meter(idm.EndpointID, idm.EndpointType, msg.Type)
        seen == Lookup(mirror, meter).seen
        state == Lookup(mirror, meter).state
        upd == Update(hasBucket, store, mirror, meter,
                      LastMessage(AnchorTime(idm, msg), idm.IntervalIdx), fault)
        first == EachFn(<<>>, AnchorTime(idm, msg),
                        Tags(msg.Type, "differential", idm.EndpointType, idm.EndpointID),
                        CumulativeFields(idm, msg))
    IN  [pts |-> IntervalLoop(idm, msg, seen, state, 0, first), upd |-> upd]

\* IDM.AddPoints giving up when Update returns an error: no point is handed on.
IDMAddPointsAbortOnError(idm, msg, hasBucket, store, mirror, fault) ==
    LET meter == Meter(idm.EndpointID, idm.EndpointType, msg.Type)
        seen == Lookup(mirror, meter).seen
        state == Lookup(mirror, meter).state
        upd == Update(hasBucket, store, mirror, meter,
                      LastMessage(AnchorTime(idm, msg), idm.IntervalIdx), fault)
        first == EachFn(<<>>, AnchorTime(idm, msg),
                        Tags(msg.Type, "cumulative", idm.EndpointType, idm.EndpointID),
                        CumulativeFields(idm, msg))
    IN  [pts |-> IF upd.err = "nil"
                 THEN IntervalLoop(idm, msg, seen, state, 0, first)
                 ELSE <<>>,
         upd |-> upd]

\* IDM.AddPoints: the meter's state is read, then updated (the error of Update is
\* dropped), then the cumulative point and the points of the intervals are handed
\* to eachFn.
IDMAddPoints(idm, msg, hasBucket, store, mirror, fault) ==
    LET meter == Meter(idm.EndpointID, idm.EndpointType, msg.Type)
        seen == Lookup(mirror, meter).seen
        state == Lookup(mirror, meter).state
        upd == Update(hasBucket, store, mirror, meter,
                      LastMessage(AnchorTime(idm, msg), idm.IntervalIdx), fault)
        first == EachFn(<<>>, AnchorTime(idm, msg),
                        Tags(msg.Type, "cumulative", idm.EndpointType, idm.EndpointID),
                        CumulativeFields(idm, msg))
    IN  [pts |-> IntervalLoop(idm, msg, seen, state, 0, first), upd |-> upd]

(* ------------------------------------------------------------------ *)
(* main                                                                *)
(* ------------------------------------------------------------------ *)

\* lookupEnv(name, dryRun): log.Fatalf when the variable is undefined outside a
\* dry run.
lookupEnv(defined, dry) == IF ~defined /\ ~dry THEN "fatal" ELSE "ok"

\* The strict-mode tests with the two types exchanged.
StrictDropSwapped(isStrict, type, idm) ==
    \/ isStrict /\ type = "IDM" /\ idm.EndpointType = 7
    \/ isStrict /\ type = "NetIDM" /\ idm.EndpointType = 8

\* The two strict-mode tests of main: an IDM of type 8, a NetIDM of type 7.
StrictDrop(isStrict, type, idm) ==
    \/ isStrict /\ type = "IDM" /\ idm.EndpointType = 8
    \/ isStrict /\ type = "NetIDM" /\ idm.EndpointType = 7

\* A line main hands to AddPoints: it parses, its type is known, its payload
\* parses, and strict mode does not drop it.
Accepted(isStrict, l) ==
    /\ l.env
    /\ l.Type \in KnownTypes
    /\ l.payload
    /\ ~(l.Type \in DifferentialTypes /\ StrictDrop(isStrict, l.Type, l.msg))

\* The states meters.db is found in when main first runs: no file, or the file an
\* earlier run left after the IDM meter 1/7 was heard at the first arrival time
\* (the first of PeriodicLines).
EarlierRuns ==
    { EmptyMap,
      (Meter(1, 7, "IDM") :> LastMessage(96000 - 40, 255)) }

StoreOf(mirror) ==
    [k \in {MarshalMeter(x) : x \in DOMAIN mirror} |->
        MarshalLastMessage(mirror[UnmarshalMeter(k).meter])]

\* The state before main has run: the environment is set, and the store is as
\* earlier runs left it.
Boot(track) ==
    /\ pc = "off"
    /\ strict \in BOOLEAN
    /\ dryRun \in BOOLEAN
    /\ committed \in EarlierRuns
    /\ bucket = (committed # EmptyMap)
    /\ kv = StoreOf(committed)
    /\ m = EmptyMap
    /\ prior = Unseen
    /\ same = FALSE
    /\ prevOK = FALSE
    /\ ledger = EmptyMap
    /\ heard = {}
    /\ chain = [track |-> track, contiguous |-> TRUE, commits |-> TRUE,
                lengths |-> {}, started |-> {}, scratch |-> (committed = EmptyMap)]
    /\ line = NoLine
    /\ outcome = "none"
    /\ pts = <<>>
    /\ sink = "not_called"
    /\ updErr = "not_called"
    /\ loadErr = "not_called"
    /\ logs = <<>>
    /\ nread = 0
    /\ runs = 0
    /\ stdin = NoInput

Init == Boot(FALSE)

\* A step that reads no line leaves nothing of a line behind.
NoLineRead ==
    /\ line' = NoLine
    /\ prior' = Unseen
    /\ same' = FALSE
    /\ prevOK' = (updErr = "nil")
    /\ UNCHANGED <<ledger, heard, chain>>
    /\ outcome' = "none"
    /\ pts' = <<>>
    /\ sink' = "not_called"
    /\ updErr' = "not_called"

\* main, from its first statement to the scanner loop: the environment is read,
\* the client certificate loaded, the store opened and preloaded, the client and
\* its blocking write API made. In a dry run client stays the nil interface, and
\* client.WriteAPIBlocking(org, bucket) is a call on it: a nil dereference panic.
Start(envDefined, certOK, openOK) ==
    /\ pc \in {"off", "exit", "fatal", "panic"}
    /\ runs < MaxRuns
    /\ runs' = runs + 1
    /\ NoLineRead
    /\ UNCHANGED <<strict, dryRun, bucket, kv, committed, nread>>
    /\ LET mm == NewMeterMap(openOK, bucket, kv)
       IN  IF lookupEnv(envDefined, dryRun) = "fatal"
           THEN /\ pc' = "fatal"
                /\ m' = EmptyMap
                /\ loadErr' = "not_called"
                /\ logs' = <<"undefined">>
           ELSE IF ~certOK /\ ~dryRun
           THEN /\ pc' = "fatal"
                /\ m' = EmptyMap
                /\ loadErr' = "not_called"
                /\ logs' = <<"could not load client certificate">>
           ELSE IF mm.err # "nil"
           THEN /\ pc' = "fatal"
                /\ m' = EmptyMap
                /\ loadErr' = mm.err
                /\ logs' = <<"NewMeterMap: " \o mm.err>>
           ELSE IF dryRun
           THEN /\ pc' = "panic"
                /\ m' = mm.m
                /\ loadErr' = mm.lost
                /\ logs' = <<>>
           ELSE /\ pc' = "scan"
                /\ m' = mm.m
                /\ loadErr' = mm.lost
                /\ logs' = <<"connecting to">>

\* The slot and the time the specification gives the reading idx of a differential
\* line: (currentIndex - idx) mod 256, anchor minus idx times five minutes, the
\* anchor being the arrival minus the transmit offset of 1/16 s ticks.
SlotOf(l, idx) == (l.msg.IntervalIdx - idx + IntervalModulus) % IntervalModulus
TimeOf(l, idx) == l.Time - l.msg.TransmitTime - idx * FiveMinutes
MeterOf(l) == <<l.msg.EndpointID, l.msg.EndpointType, l.Type>>

\* The differential points among ps.
Differential(ps) == SelectSeq(ps, LAMBDA q : q.tags.msg_type = "differential")
DiffCount(ps) == Len(Differential(ps))

\* The line's stored state is (T, s), its slot (s + k) mod 256 and its anchor
\* T + k * 5 min: it overlaps what was stored contiguously, k intervals on.
Overlaps(l, before, k) ==
    /\ before.seen
    /\ l.msg.IntervalIdx = (before.state.Interval + k) % IntervalModulus
    /\ TimeOf(l, 0) = before.state.Time + k * FiveMinutes

\* The history variables after a line, where they are kept (chain.track): every
\* differential point handed to eachFn is counted in the ledger under its meter,
\* its interval field and its time, every reading of the message is noted in
\* heard, and chain tells whether every message so far was the first of a meter
\* without stored state or overlapped the stored state contiguously (contiguous),
\* whether every update committed (commits), which lengths the messages had, and
\* whether the store was empty to begin with (scratch).
Record(l, out, ps, err, before) ==
    IF chain.track /\ out = "processed" /\ l.Type \in DifferentialTypes
    THEN LET n == Len(l.msg.IntervalDiff)
             keys == { <<MeterOf(l), Differential(ps)[i].fields.interval,
                         Differential(ps)[i].t>> : i \in 1..DiffCount(ps) }
             times(r) == Cardinality({ i \in 1..DiffCount(ps) :
                             <<MeterOf(l), Differential(ps)[i].fields.interval,
                               Differential(ps)[i].t>> = r })
             old(r) == IF r \in DOMAIN ledger THEN ledger[r] ELSE 0
         IN  /\ ledger' = [r \in DOMAIN ledger \cup keys |-> old(r) + times(r)]
             /\ heard' = heard \cup
                    { <<MeterOf(l), SlotOf(l, idx), TimeOf(l, idx)>> : idx \in 0..n - 1 }
             /\ chain' = [chain EXCEPT
                    !.contiguous = /\ @
                                   /\ \/ ~before.seen /\ MeterOf(l) \notin chain.started
                                      \/ \E k \in 0..n - 1 : Overlaps(l, before, k),
                    !.commits = @ /\ err = "nil",
                    !.lengths = @ \cup {n},
                    !.started = @ \cup {MeterOf(l)}]
    ELSE UNCHANGED <<ledger, heard, chain>>

\* What MeterMap is left as by a line that does not reach Update.
NoUpdate(hasBucket, store, mirror) ==
    [bucket |-> hasBucket, kv |-> store, m |-> mirror, err |-> "not_called"]

\* The body of the scanner loop run with the strict-mode tests after AddPoints
\* instead of before it: the meter map is updated, then the message is dropped.
HandleLineDropLate(isStrict, l, hasBucket, store, mirror, fault) ==
    IF ~l.env
    THEN [outcome |-> "envelope_error", logs |-> <<"json: envelope">>, pts |-> <<>>,
          upd |-> NoUpdate(hasBucket, store, mirror)]
    ELSE IF l.Type \notin KnownTypes \/ ~l.payload
    THEN [outcome |-> "payload_error", logs |-> <<"json unmarshal">>, pts |-> <<>>,
          upd |-> NoUpdate(hasBucket, store, mirror)]
    ELSE IF l.Type \in DifferentialTypes
    THEN IF StrictDrop(isStrict, l.Type, l.msg)
         THEN [outcome |-> "strict_drop", logs |-> <<>>, pts |-> <<>>,
               upd |-> IDMAddPoints(l.msg, l, hasBucket, store, mirror, fault).upd]
         ELSE [outcome |-> "processed", logs |-> <<>>]
              @@ IDMAddPoints(l.msg, l, hasBucket, store, mirror, fault)
    ELSE [outcome |-> "processed", logs |-> <<>>,
          pts |-> IF l.Type \in {"SCM", "SCM+"}
                  THEN SCMAddPoints(l.msg, l)
                  ELSE R900AddPoints(l.msg, l),
          upd |-> NoUpdate(hasBucket, store, mirror)]

\* The body of the scanner loop with one of three changes. "default_scm": the
\* switch has a default case that makes an SCM of a type it does not know, which
\* decodes to the zero SCM. "no_payload_check": the error of the payload's
\* json.Unmarshal is not looked at, and the points of an IDM are gathered from
\* what Unmarshal left of it.
\* "silent_skip": a line that does not parse is skipped without a log record.
HandleLineVariant(v, isStrict, l, hasBucket, store, mirror, fault) ==
    IF ~l.env
    THEN [outcome |-> "envelope_error",
          logs |-> IF v = "silent_skip" THEN <<>> ELSE <<"json: envelope">>,
          pts |-> <<>>, upd |-> NoUpdate(hasBucket, store, mirror)]
    ELSE IF l.Type \notin KnownTypes /\ v = "default_scm"
    THEN [outcome |-> "processed", logs |-> <<>>,
          pts |-> SCMAddPoints([EndpointID |-> 0, EndpointType |-> 0,
                                Consumption |-> 0], l),
          upd |-> NoUpdate(hasBucket, store, mirror)]
    ELSE IF ~l.payload /\ l.Type \in DifferentialTypes /\ v = "no_payload_check"
    THEN [outcome |-> "processed", logs |-> <<>>,
          pts |-> IDMAddPoints(IDMMsg(0, 0, 0, 0, 0, NoOutage), l, hasBucket,
                               store, mirror, fault).pts,
          upd |-> NoUpdate(hasBucket, store, mirror)]
    ELSE IF l.Type \notin KnownTypes \/ ~l.payload
    THEN [outcome |-> "payload_error",
          logs |-> IF v = "silent_skip" THEN <<>> ELSE <<"json unmarshal">>,
          pts |-> <<>>, upd |-> NoUpdate(hasBucket, store, mirror)]
    ELSE IF l.Type \in DifferentialTypes /\ StrictDrop(isStrict, l.Type, l.msg)
    THEN [outcome |-> "strict_drop", logs |-> <<>>, pts |-> <<>>,
          upd |-> NoUpdate(hasBucket, store, mirror)]
    ELSE IF l.Type \in DifferentialTypes
    THEN [outcome |-> "processed", logs |-> <<>>]
         @@ IDMAddPoints(l.msg, l, hasBucket, store, mirror, fault)
    ELSE [outcome |-> "processed", logs |-> <<>>,
          pts |-> IF l.Type \in {"SCM", "SCM+"}
                  THEN SCMAddPoints(l.msg, l)
                  ELSE R900AddPoints(l.msg, l),
          upd |-> NoUpdate(hasBucket, store, mirror)]

HandleLineDefaultSCM(isStrict, l, hasBucket, store, mirror, fault) ==
    HandleLineVariant("default_scm", isStrict, l, hasBucket, store, mirror, fault)

HandleLineNoPayloadCheck(isStrict, l, hasBucket, store, mirror, fault) ==
    HandleLineVariant("no_payload_check", isStrict, l, hasBucket, store, mirror, fault)

HandleLineSilentSkip(isStrict, l, hasBucket, store, mirror, fault) ==
    HandleLineVariant("silent_skip", isStrict, l, hasBucket, store, mirror, fault)

\* The body of the scanner loop up to the write: the line is parsed, dispatched on
\* its type, its payload parsed, a strict-mode mismatch dropped, and the message's
\* points gathered (IDM.AddPoints updates the meter map). A type the switch does
\* not know leaves msg nil, and json.Unmarshal into nil is an error.
HandleLine(isStrict, l, hasBucket, store, mirror, fault) ==
    IF ~l.env
    THEN [outcome |-> "envelope_error", logs |-> <<"json: envelope">>, pts |-> <<>>,
          upd |-> NoUpdate(hasBucket, store, mirror)]
    ELSE IF l.Type \notin KnownTypes \/ ~l.payload
    THEN [outcome |-> "payload_error", logs |-> <<"json unmarshal">>, pts |-> <<>>,
          upd |-> NoUpdate(hasBucket, store, mirror)]
    ELSE IF l.Type \in DifferentialTypes /\ StrictDrop(isStrict, l.Type, l.msg)
    THEN [outcome |-> "strict_drop", logs |-> <<>>, pts |-> <<>>,
          upd |-> NoUpdate(hasBucket, store, mirror)]
    ELSE IF l.Type \in DifferentialTypes
    THEN [outcome |-> "processed", logs |-> <<>>]
         @@ IDMAddPoints(l.msg, l, hasBucket, store, mirror, fault)
    ELSE [outcome |-> "processed", logs |-> <<>>,
          pts |-> IF l.Type \in {"SCM", "SCM+"}
                  THEN SCMAddPoints(l.msg, l)
                  ELSE R900AddPoints(l.msg, l),
          upd |-> NoUpdate(hasBucket, store, mirror)]

\* A turn of the scanner loop with log.Printf where the code has log.Fatalf: a
\* failed write is logged and the loop goes on.
ScanLineLogAndContinue(l, fault, sinkOK) ==
    /\ pc = "scan"
    /\ nread < MaxLines
    /\ nread' = nread + 1
    /\ line' = l
    /\ same' = (l = line)
    /\ prevOK' = (updErr = "nil")
    /\ prior' = IF l.env /\ l.payload /\ l.Type \in DifferentialTypes
                THEN Lookup(m, Meter(l.msg.EndpointID, l.msg.EndpointType, l.Type))
                ELSE Unseen
    /\ UNCHANGED <<strict, dryRun, runs, loadErr>>
    /\ \E r \in {HandleLine(strict, l, bucket, kv, m, fault)} :
           /\ outcome' = r.outcome
           /\ pts' = r.pts
           /\ bucket' = r.upd.bucket
           /\ kv' = r.upd.kv
           /\ m' = r.upd.m
           /\ updErr' = r.upd.err
           /\ committed' =
                IF r.upd.err = "nil"
                THEN (Meter(l.msg.EndpointID, l.msg.EndpointType, l.Type) :>
                        LastMessage(AnchorTime(l.msg, l), l.msg.IntervalIdx))
                     @@ committed
                ELSE committed
           /\ IF r.outcome # "processed"
              THEN /\ sink' = "not_called"
                   /\ logs' = r.logs
                   /\ pc' = pc
              ELSE IF dryRun
              THEN /\ sink' = "not_called"
                   /\ logs' = <<>>
                   /\ pc' = pc
              ELSE IF sinkOK
              THEN /\ sink' = "ok"
                   /\ logs' = <<>>
                   /\ pc' = pc
              ELSE /\ sink' = "error"
                   /\ logs' = <<"api.WritePoint">>
                   /\ pc' = pc
    /\ Record(l, outcome', pts', updErr', prior')

\* One turn of the scanner loop: the line is handled and, if it came to points
\* and this is no dry run, the points are written; a failed write is fatal.
ScanLine(l, fault, sinkOK) ==
    /\ pc = "scan"
    /\ nread < MaxLines
    /\ nread' = nread + 1
    /\ line' = l
    /\ same' = (l = line)
    /\ prevOK' = (updErr = "nil")
    /\ prior' = IF l.env /\ l.payload /\ l.Type \in DifferentialTypes
                THEN Lookup(m, Meter(l.msg.EndpointID, l.msg.EndpointType, l.Type))
                ELSE Unseen
    /\ UNCHANGED <<strict, dryRun, runs, loadErr>>
    /\ \E r \in {HandleLine(strict, l, bucket, kv, m, fault)} :
           /\ outcome' = r.outcome
           /\ pts' = r.pts
           /\ bucket' = r.upd.bucket
           /\ kv' = r.upd.kv
           /\ m' = r.upd.m
           /\ updErr' = r.upd.err
           /\ committed' =
                IF r.upd.err = "nil"
                THEN (Meter(l.msg.EndpointID, l.msg.EndpointType, l.Type) :>
                        LastMessage(AnchorTime(l.msg, l), l.msg.IntervalIdx))
                     @@ committed
                ELSE committed
           /\ IF r.outcome # "processed"
              THEN /\ sink' = "not_called"
                   /\ logs' = r.logs
                   /\ pc' = pc
              ELSE IF dryRun
              THEN /\ sink' = "not_called"
                   /\ logs' = <<>>
                   /\ pc' = pc
              ELSE IF sinkOK
              THEN /\ sink' = "ok"
                   /\ logs' = <<>>
                   /\ pc' = pc
              ELSE /\ sink' = "error"
                   /\ logs' = <<"api.WritePoint">>
                   /\ pc' = "fatal"
    /\ Record(l, outcome', pts', updErr', prior')

\* stdinBuf.Scan() returns false at the end of the input: main returns, and the
\* deferred calls close the client and the store.
EndOfInput ==
    /\ pc = "scan"
    /\ pc' = "exit"
    /\ NoLineRead
    /\ logs' = <<>>
    /\ UNCHANGED <<strict, dryRun, bucket, kv, m, committed, nread, runs, loadErr>>

Next ==
    \/ \E e \in BOOLEAN, c \in BOOLEAN, o \in BOOLEAN :
          Start(e, c, o) /\ UNCHANGED stdin
    \/ \E l \in Lines :
          \E f \in (IF Accepted(strict, l) /\ l.Type \in DifferentialTypes
                    THEN Faults ELSE {"none"}),
             w \in (IF Accepted(strict, l) THEN BOOLEAN ELSE {TRUE}) :
             ScanLine(l, f, w) /\ UNCHANGED stdin
    \/ EndOfInput /\ UNCHANGED stdin

Spec == Init /\ [][Next]_vars

\* The meter of PeriodicLines alone, heard by a process that is not in strict mode
\* and has a destination, with the history of its readings kept.
InitChain ==
    /\ Boot(TRUE)
    /\ ~strict
    /\ ~dryRun

NextChain ==
    \/ \E e \in BOOLEAN, c \in BOOLEAN, o \in BOOLEAN :
          Start(e, c, o) /\ UNCHANGED stdin
    \/ \E l \in PeriodicLines, f \in {"none", "bkt.Put"}, w \in BOOLEAN :
          ScanLine(l, f, w) /\ UNCHANGED stdin
    \/ EndOfInput /\ UNCHANGED stdin

SpecChain == InitChain /\ [][NextChain]_vars

\* The intervals of an IDM as rtlamr sends it: the outage bit of the interval idx
\* is bit 46 - idx.
IntervalsPerMessage == 47

\* PowerOutageFlags values: none set, all set, bit 46 (the newest interval), bit
\* 0 (the oldest), bit 47 (no interval's), bit 8, and a mixed pattern.
OutageFlags ==
    { NoOutage,
      <<255, 255, 255, 255, 255, 255>>,
      <<64, 0, 0, 0, 0, 0>>,
      <<0, 0, 0, 0, 0, 1>>,
      <<128, 0, 0, 0, 0, 0>>,
      <<0, 0, 0, 0, 1, 0>>,
      <<165, 0, 60, 0, 129, 90>> }

\* Full messages of the IDM meter 1/7: one at every value of
\* ConsumptionIntervalCount, and one more reading than rtlamr sends under every
\* value of PowerOutageFlags.
FieldLines ==
    { Line(96000, "IDM", IDMMsg(1, 7, 0, c, IntervalsPerMessage, NoOutage)) :
        c \in 0..IntervalModulus - 1 }
    \cup
    { Line(96000, "IDM", IDMMsg(1, 7, 0, 0, IntervalsPerMessage + 1, o)) :
        o \in OutageFlags }

\* The process with a destination and an empty store reads one full message.
InitFields ==
    /\ Boot(FALSE)
    /\ ~strict
    /\ ~dryRun
    /\ committed = EmptyMap

NextFields ==
    \/ Start(TRUE, TRUE, TRUE) /\ UNCHANGED stdin
    \/ \E l \in FieldLines :
          nread = 0 /\ ScanLine(l, "none", TRUE) /\ UNCHANGED stdin
    \/ EndOfInput /\ UNCHANGED stdin

SpecFields == InitFields /\ [][NextFields]_vars

\* How far, in ticks, the clock that stamps the arrivals has moved against the
\* meter's since the stored message: around both limits of the threshold, around
\* 0, and a whole interval.
Drifts ==
    { 0 - FiveMinutes, 0 - threshold - 1, 0 - threshold, 1 - threshold, -1, 0, 1,
      threshold - 1, threshold, threshold + 1, FiveMinutes }

\* Messages of the IDM meter 1/7 whose reading j falls on the slot 255 that
\* EarlierRuns stored at 95960, d ticks later than the stored time.
DriftLines ==
    { Line(96000 + j * FiveMinutes + d, "IDM",
           IDMMsg(1, 7, 40, (255 + j) % IntervalModulus, n, NoOutage)) :
        j \in 0..MaxReadings, n \in 0..MaxReadings, d \in Drifts }

\* The process with a destination reads one such message against the store
\* earlier runs left.
InitDrift ==
    /\ Boot(FALSE)
    /\ ~strict
    /\ ~dryRun

NextDrift ==
    \/ Start(TRUE, TRUE, TRUE) /\ UNCHANGED stdin
    \/ \E l \in DriftLines :
          nread = 0 /\ ScanLine(l, "none", TRUE) /\ UNCHANGED stdin
    \/ EndOfInput /\ UNCHANGED stdin

SpecDrift == InitDrift /\ [][NextDrift]_vars

\* TransmitTimeOffset is a uint16.
MaxTransmitTime == 65535

\* Messages of two readings of the IDM meter 1/7, one at every value of
\* TransmitTimeOffset.
TimeLines ==
    { Line(96000, "IDM", IDMMsg(1, 7, tt, 0, 2, NoOutage)) : tt \in 0..MaxTransmitTime }

\* The process with a destination and an empty store reads one such message.
InitTime ==
    /\ Boot(FALSE)
    /\ ~strict
    /\ ~dryRun
    /\ committed = EmptyMap

NextTime ==
    \/ Start(TRUE, TRUE, TRUE) /\ UNCHANGED stdin
    \/ nread = 0 /\ \E l \in TimeLines :
          ScanLine(l, "none", TRUE) /\ UNCHANGED stdin
    \/ EndOfInput /\ UNCHANGED stdin

SpecTime == InitTime /\ [][NextTime]_vars

\* While the process is not running, a value of meters.db is overwritten by bytes
\* that are no msgpack LastMessage.
Corrupt(k) ==
    /\ pc \in {"off", "exit", "fatal", "panic"}
    /\ k \in DOMAIN kv
    /\ kv[k] # Garbage
    /\ kv' = [kv EXCEPT ![k] = Garbage]
    /\ UNCHANGED <<pc, strict, dryRun, bucket, m, line, outcome, pts, sink, updErr,
                   loadErr, logs, committed, prior, same, prevOK, ledger, heard,
                   chain, nread, runs, stdin>>

\* The process with a destination, and a store that can be damaged between runs.
InitCorrupt ==
    /\ Boot(FALSE)
    /\ ~dryRun

NextCorrupt ==
    \/ \E c \in BOOLEAN, o \in BOOLEAN : Start(TRUE, c, o) /\ UNCHANGED stdin
    \/ \E l \in MeterLines \cup PeriodicLines :
          ScanLine(l, "none", TRUE) /\ UNCHANGED stdin
    \/ EndOfInput /\ UNCHANGED stdin
    \/ \E k \in DOMAIN kv : Corrupt(k)

SpecCorrupt == InitCorrupt /\ [][NextCorrupt]_vars

\* bufio.NewScanner(os.Stdin) with the buffer it comes with: the buffer grows to
\* bufio.MaxScanTokenSize bytes, 64 * 1024, and no further.
MaxScanTokenSize == 65536

\* The length of a line as rtlamr may write it, and the lengths on either side of
\* what the scanner's buffer holds together with the end of the line.
LineLengths == {300, MaxScanTokenSize - 1, MaxScanTokenSize}

\* What the lines of standard input say: a cumulative message, a line that is no
\* JSON object, and an IDM of endpoint type 8, which strict mode drops.
StreamTexts ==
    { Line(96000, "SCM", [EndpointID |-> 1, EndpointType |-> 7, Consumption |-> 500]),
      [env |-> FALSE, Time |-> 0, Type |-> "", payload |-> FALSE, msg |-> NoMsg],
      Line(96000, "IDM", IDMMsg(1, 8, 40, 3, 1, NoOutage)) }

\* A line of standard input: its length in bytes without the end of line, and
\* what it says.
StreamLines == [bytes : LineLengths, text : StreamTexts]

\* The inputs of at most n lines.
Streams(n) == UNION { [1..k -> StreamLines] : k \in 0..n }

\* stdinBuf.Scan(): the next line is handed out; false is returned at the end of
\* the input, and also when the buffer is full and holds no end of line ("Scanning
\* stops unrecoverably at EOF, the first I/O error, or a token too large to fit in
\* the buffer", bufio.ErrTooLong). A line of MaxScanTokenSize bytes fills the
\* buffer before its end is read.
Scan(unread) ==
    IF unread = <<>>
    THEN [ok |-> FALSE, err |-> "nil", rest |-> unread]
    ELSE IF Head(unread).bytes >= MaxScanTokenSize
    THEN [ok |-> FALSE, err |-> "bufio.Scanner: token too long", rest |-> unread]
    ELSE [ok |-> TRUE, err |-> "nil", rest |-> Tail(unread)]

\* main is started on an input of its own.
StartOnInput(openOK, in) ==
    /\ Start(TRUE, TRUE, openOK)
    /\ stdin' = [input |-> in, unread |-> in, handled |-> <<>>]

\* for stdinBuf.Scan() { line := stdinBuf.Bytes(); ... }: Scan returned true, and
\* the body of the loop runs on the line it handed out.
ScanTrue(sinkOK) ==
    /\ Scan(stdin.unread).ok
    /\ ScanLine(Head(stdin.unread).text, "none", sinkOK)
    /\ stdin' = [stdin EXCEPT !.unread = Scan(stdin.unread).rest,
                              !.handled = Append(@, Head(stdin.unread))]

\* Scan returned false: the loop is left and main returns. stdinBuf.Err() is not
\* looked at, so nothing is logged, whatever made Scan return false.
ScanFalse ==
    /\ ~Scan(stdin.unread).ok
    /\ EndOfInput
    /\ UNCHANGED stdin

\* The process with a destination, started on inputs that are fixed at its start.
InitStream ==
    /\ Boot(FALSE)
    /\ ~dryRun

NextStream ==
    \/ \E o \in BOOLEAN, in \in Streams(MaxLines - nread) : StartOnInput(o, in)
    \/ \E w \in BOOLEAN : ScanTrue(w)
    \/ ScanFalse

SpecStream == InitStream /\ [][NextStream]_vars

(* ------------------------------------------------------------------ *)
(* Claims                                                              *)
(* ------------------------------------------------------------------ *)

\* The reading offsets idx whose point (slot in the interval field, time as the
\* specification computes it) is among the differential points of ps.
EmittedIdx(l, ps) ==
    { idx \in 0..Len(l.msg.IntervalDiff) - 1 :
        \E i \in 1..DiffCount(ps) :
            /\ Differential(ps)[i].fields.interval = SlotOf(l, idx)
            /\ Differential(ps)[i].t = TimeOf(l, idx) }

\* The last step handed a differential line to IDM.AddPoints.
DifferentialProcessed ==
    outcome = "processed" /\ line.Type \in DifferentialTypes

\* C1: every line of type SCM, SCM+, R900 or R900BCD whose payload decodes hands
\* exactly one point to eachFn, with msg_type "cumulative" and the line's Time as
\* its timestamp, whatever the meter map holds and whatever line came before.
C1_CumulativeOneRecord ==
    (line.env /\ line.payload /\ line.Type \in CumulativeTypes) =>
        /\ outcome = "processed"
        /\ Len(pts) = 1
        /\ pts[1].tags.msg_type = "cumulative"
        /\ pts[1].t = line.Time

\* C1 happens: the same cumulative line is read twice in a row while the meter map
\* holds state for its serial and type, and the second emits its one point.
C1_Witness ==
    /\ line.env /\ line.payload /\ line.Type \in CumulativeTypes
    /\ same
    /\ Len(pts) = 1
    /\ \E x \in DOMAIN m :
          x.EndpointID = line.msg.EndpointID /\ x.EndpointType = line.msg.EndpointType

\* C2: an IDM or NetIDM message whose meter has no entry in the mirror emits as many
\* differential points as it has readings.
C2_UnseenEmitsAll ==
    (DifferentialProcessed /\ ~prior.seen) =>
        /\ DiffCount(pts) = Len(line.msg.IntervalDiff)
        /\ EmittedIdx(line, pts) = 0..Len(line.msg.IntervalDiff) - 1

\* C2 happens: a message of MaxReadings readings from a meter not in the mirror.
C2_Witness ==
    /\ DifferentialProcessed
    /\ ~prior.seen
    /\ Len(line.msg.IntervalDiff) = MaxReadings
    /\ DiffCount(pts) = MaxReadings

\* C3: a differential message read again right after itself, the first update
\* committed, emits no differential point; and whenever the stored time equals the
\* time of the reading that falls on the stored slot, the points emitted are those
\* of the readings newer than it.
C3_ReplayEmitsNothing ==
    /\ (DifferentialProcessed /\ same /\ prevOK) => DiffCount(pts) = 0
    /\ DifferentialProcessed /\ prior.seen =>
          \A idx \in 0..Len(line.msg.IntervalDiff) - 1 :
              (/\ SlotOf(line, idx) = prior.state.Interval
               /\ TimeOf(line, idx) = prior.state.Time) =>
                  /\ DiffCount(pts) = idx
                  /\ EmittedIdx(line, pts) = 0..idx - 1

\* C3 happens: a message of MaxReadings readings is replayed and emits only its
\* cumulative point.
C3_Witness ==
    /\ DifferentialProcessed
    /\ same
    /\ prevOK
    /\ Len(line.msg.IntervalDiff) = MaxReadings
    /\ Len(pts) = 1

\* How often the reading r was emitted.
Emitted(r) == IF r \in DOMAIN ledger THEN ledger[r] ELSE 0

\* A differential line whose stored state is (T, s), whose slot is (s + k) mod 256
\* and whose anchor is T + k * 5 min, 0 <= k < its number of readings, has the
\* points of its readings 0..k-1 emitted and no other.
OverlapEmitsNew ==
    DifferentialProcessed =>
        \A k \in 0..Len(line.msg.IntervalDiff) - 1 :
            Overlaps(line, prior, k) =>
                /\ DiffCount(pts) = k
                /\ EmittedIdx(line, pts) = 0..k - 1

LineMeter == Meter(line.msg.EndpointID, line.msg.EndpointType, line.Type)

\* main has just come to its scanner loop and has read no line yet.
JustStarted == pc = "scan" /\ outcome = "none"

\* C5: once main has preloaded the store, the lookup of every meter gives the last
\* state committed for it (in this run or an earlier one), and the first line read
\* after the start is deduplicated against it: if one of its readings has the
\* committed slot and time, that reading and the older ones are not emitted.
C5_StateSurvivesRestart ==
    /\ [](JustStarted => m = committed)
    /\ [][(JustStarted /\ DifferentialProcessed') =>
            /\ prior' = Lookup(committed, LineMeter')
            /\ \A idx \in 0..Len(line'.msg.IntervalDiff) - 1 :
                 (/\ prior'.seen
                  /\ SlotOf(line', idx) = Lookup(committed, LineMeter').state.Interval
                  /\ TimeOf(line', idx) = Lookup(committed, LineMeter').state.Time)
                 => DiffCount(pts') = idx]_vars

\* C5 happens: a NetIDM meter, which no earlier run had heard, is heard in the
\* first run, and in the second run the same message finds its state and has
\* none of its readings emitted.
C5_Witness ==
    /\ runs = 2
    /\ DifferentialProcessed
    /\ line.Type = "NetIDM"
    /\ nread = 2
    /\ prior.seen
    /\ ~same
    /\ Len(line.msg.IntervalDiff) > 0
    /\ DiffCount(pts) = 0

\* C6: every pair of the mirror is a pair the store holds; a differential line
\* whose state the store does not hold after it had an error returned by Update
\* and finds the mirror's entry of its meter as it was; and a step in which
\* Update returns an error leaves the whole mirror and the store as they were.
C6_MirrorOnlyCommitted ==
    /\ [](/\ \A meter \in DOMAIN m :
               /\ bucket
               /\ MarshalMeter(meter) \in DOMAIN kv
               /\ UnmarshalLastMessage(kv[MarshalMeter(meter)]) =
                     [ok |-> TRUE, msg |-> m[meter]]
          /\ (/\ DifferentialProcessed
              /\ \/ MarshalMeter(LineMeter) \notin DOMAIN kv
                 \/ kv[MarshalMeter(LineMeter)] #
                       MarshalLastMessage(LastMessage(TimeOf(line, 0),
                                                      line.msg.IntervalIdx)))
             => /\ updErr \notin {"nil", "not_called"}
                /\ Lookup(m, LineMeter) = prior)
    /\ [][updErr' \notin {"nil", "not_called"} =>
            UNCHANGED <<m, kv, bucket>>]_vars

\* C6 happens: the update of a line fails while the mirror holds an older state
\* of its meter, which stays.
C6_Witness ==
    /\ DifferentialProcessed
    /\ updErr \notin {"nil", "not_called"}
    /\ prior.seen
    /\ Lookup(m, LineMeter) = prior
    /\ prior.state # LastMessage(TimeOf(line, 0), line.msg.IntervalIdx)

\* C7: a line of type IDM or NetIDM whose payload decodes is dropped if and only
\* if strict mode is on and it is an IDM of type 8 or a NetIDM of type 7; no other
\* line is dropped by the filter.
C7_StrictDecision ==
    /\ (line.env /\ line.payload /\ line.Type \in DifferentialTypes) =>
          (outcome = "strict_drop" <=>
              /\ strict
              /\ \/ line.Type = "IDM" /\ line.msg.EndpointType = 8
                 \/ line.Type = "NetIDM" /\ line.msg.EndpointType = 7)
    /\ outcome = "strict_drop" =>
          line.env /\ line.payload /\ line.Type \in DifferentialTypes

\* C7 happens: in strict mode an IDM of type 8 is dropped, the second line read.
C7_Witness ==
    /\ strict
    /\ outcome = "strict_drop"
    /\ line.Type = "IDM"
    /\ line.msg.EndpointType = 8
    /\ nread = 2

\* C8: a line dropped by strict mode has no point gathered, no write to the sink
\* and no call of Update, and the step that drops it leaves the store, the mirror
\* and the committed states as they were, so the next line of the meter meets
\* the state it would have met without it.
C8_StrictDropFrame ==
    /\ [](outcome = "strict_drop" =>
             pts = <<>> /\ sink = "not_called" /\ updErr = "not_called")
    /\ [][outcome' = "strict_drop" => UNCHANGED <<bucket, kv, m, committed>>]_vars

\* C8 happens: a NetIDM of type 7 is dropped while the mirror holds the state of
\* the IDM meter of the same serial and type, and none of the NetIDM.
C8_Witness ==
    /\ outcome = "strict_drop"
    /\ line.Type = "NetIDM"
    /\ Meter(line.msg.EndpointID, line.msg.EndpointType, "IDM") \in DOMAIN m
    /\ LineMeter \notin DOMAIN m

\* C9 as claimed: with COLLECT_INFLUXDB_DRYRUN set the process comes to read its
\* input, never writes to the sink and does not end abnormally for want of a
\* destination.
C9_DryRunNeverFails ==
    dryRun => pc # "panic" /\ sink = "not_called"

\* C10 as claimed: when the preload meets an error (the store does not open, or a
\* stored pair does not decode), the error is logged, the process is not ended,
\* and it goes on to read its input with an empty mirror.
C10_PreloadErrorTolerated ==
    (runs > 0 /\ outcome = "none" /\ pc # "exit"
        /\ loadErr \in {"bbolt.Open", "msgpack.Unmarshal"}) =>
        /\ pc = "scan"
        /\ m = EmptyMap
        /\ \E i \in 1..Len(logs) : logs[i] = "NewMeterMap: " \o loadErr

\* Update was called for the last line and returned an error.
UpdateFailed == updErr \notin {"nil", "not_called"}

\* The reading offsets of the line l that the state `before` makes old data: the
\* slot is the stored one and the time is less than the threshold from the
\* stored one.
OldIdx(l, before) ==
    { idx \in 0..Len(l.msg.IntervalDiff) - 1 :
        /\ before.seen
        /\ SlotOf(l, idx) = before.state.Interval
        /\ before.state.Time - TimeOf(l, idx) > -threshold
        /\ before.state.Time - TimeOf(l, idx) < threshold }

\* The number of readings of l ahead of the first one that is old data.
NewCount(l, before) ==
    IF OldIdx(l, before) = {} THEN Len(l.msg.IntervalDiff)
    ELSE CHOOSE idx \in OldIdx(l, before) : \A o \in OldIdx(l, before) : idx <= o

\* C11: when Update fails for a differential line, its points are gathered all
\* the same (the cumulative point at the anchor, then the readings ahead of the
\* first one the state cached before the line makes old data), the write to the
\* sink is made with them, and unless that write fails the loop goes on.
C11_EmitDespiteUpdateFailure ==
    (DifferentialProcessed /\ UpdateFailed) =>
        /\ Len(pts) = 1 + NewCount(line, prior)
        /\ pts[1].tags.msg_type = "cumulative"
        /\ pts[1].t = TimeOf(line, 0)
        /\ DiffCount(pts) = NewCount(line, prior)
        /\ EmittedIdx(line, pts) = 0..NewCount(line, prior) - 1
        /\ sink \in {"ok", "error"}
        /\ sink = "ok" => pc = "scan"

\* C11 happens: the update of a line with readings fails, the meter has a cached
\* state that suppresses some of them, the others are written and the loop is
\* ready for the next line.
C11_Witness ==
    /\ DifferentialProcessed
    /\ UpdateFailed
    /\ prior.seen
    /\ DiffCount(pts) > 0
    /\ DiffCount(pts) < Len(line.msg.IntervalDiff)
    /\ sink = "ok"
    /\ pc = "scan"
    /\ nread < MaxLines

\* C12 as claimed: whenever Update returns an error for a differential line, the
\* step writes a log record of that error (which would name the meter).
C12_UpdateFailureLogged ==
    (DifferentialProcessed /\ UpdateFailed) =>
        \E i \in 1..Len(logs) : logs[i] = updErr

\* C13 as claimed, in the particular it names: there is no state in which the
\* store has advanced to the (anchor, slot) of a differential line while the
\* write of that line's points failed. (The claim is stronger: the update and
\* the delivery take effect both or neither.)
C13_AtomicPerRecord ==
    (/\ DifferentialProcessed
     /\ updErr = "nil"
     /\ prior # [seen |-> TRUE,
                 state |-> LastMessage(TimeOf(line, 0), line.msg.IntervalIdx)]
     /\ DiffCount(pts) > 0)
    => sink = "ok"

\* The last step read a line.
LineRead == outcome # "none"

\* C14: a line whose envelope parses and whose Type is none of the six known
\* ones comes to no message: no point is gathered, the sink is not written to,
\* Update is not called, the process stays in its loop, and the step leaves the
\* store and the mirror as they were, so the next line meets what it would have
\* met without it.
C14_UnknownTypeSkipped ==
    /\ []((LineRead /\ line.env /\ line.Type \notin KnownTypes) =>
             /\ outcome = "payload_error"
             /\ pts = <<>>
             /\ sink = "not_called"
             /\ updErr = "not_called"
             /\ pc = "scan")
    /\ [][(LineRead' /\ line'.env /\ line'.Type \notin KnownTypes) =>
             UNCHANGED <<pc, bucket, kv, m, committed>>]_vars

\* C14 happens: a line of type GPS is read second, while the store holds a
\* meter's state, and the loop goes on.
C14_Witness ==
    /\ LineRead
    /\ line.env
    /\ line.Type = "GPS"
    /\ nread = 2
    /\ kv # EmptyMap
    /\ m # EmptyMap
    /\ pc = "scan"

\* C15: a line whose envelope does not parse, or whose payload does not parse
\* under the struct of its type, is logged and skipped: no point is gathered, the
\* sink is not written to, Update is not called, the loop goes on, and the step
\* leaves the store and the mirror as they were.
C15_MalformedLineSkipped ==
    /\ []((LineRead /\ (~line.env \/ ~line.payload)) =>
             /\ outcome \in {"envelope_error", "payload_error"}
             /\ Len(logs) = 1
             /\ pts = <<>>
             /\ sink = "not_called"
             /\ updErr = "not_called"
             /\ pc = "scan")
    /\ [][(LineRead' /\ (~line'.env \/ ~line'.payload)) =>
             UNCHANGED <<pc, bucket, kv, m, committed>>]_vars

\* C15 happens: an IDM line whose payload does not parse is read second, while
\* the store holds a meter's state, and the loop goes on.
C15_Witness ==
    /\ LineRead
    /\ line.env
    /\ ~line.payload
    /\ line.Type = "IDM"
    /\ nread = 2
    /\ m # EmptyMap
    /\ logs = <<"json unmarshal">>
    /\ pc = "scan"

\* C16: a write to the sink that fails (there is none in a dry run) is logged and
\* ends the process: it is in its fatal exit, and reads no line from there on.
C16_SinkFailureFatal ==
    /\ [](sink = "error" =>
             /\ ~dryRun
             /\ pc = "fatal"
             /\ logs = <<"api.WritePoint">>)
    /\ [][pc = "fatal" => (nread' = nread /\ ~LineRead')]_vars

\* C16 happens: the write of the first line fails, with more input to come.
C16_Witness ==
    /\ sink = "error"
    /\ pc = "fatal"
    /\ pts # <<>>
    /\ nread = 1
    /\ nread < MaxLines

\* The last line fell to an error that keeps its points from the sink: it did
\* not parse (malformed envelope, malformed payload, unknown type), or its write
\* failed.
LineLostToError ==
    \/ outcome \in {"envelope_error", "payload_error"}
    \/ sink = "error"

RECURSIVE Decimal(_)
Decimal(ds) ==
    IF ds = <<>> THEN 0
    ELSE 10 * Decimal(SubSeq(ds, 1, Len(ds) - 1)) + ds[Len(ds)]

\* ds is the decimal rendering of n: digits, no leading zero, value n.
Renders(ds, n) ==
    /\ Len(ds) >= 1
    /\ \A i \in 1..Len(ds) : ds[i] \in 0..9
    /\ Len(ds) > 1 => ds[1] # 0
    /\ Decimal(ds) = n

\* C18: every point gathered for a line has exactly the tags protocol, msg_type,
\* endpoint_type and endpoint_id: the line's Type, "cumulative" or
\* "differential", and the decimal renderings of the message's type and serial.
\* The points of a cumulative line and the first point of a differential line
\* are "cumulative", the other points of a differential line "differential".
C18_Tags ==
    \A i \in 1..Len(pts) :
        /\ DOMAIN pts[i].tags = {"protocol", "msg_type", "endpoint_type", "endpoint_id"}
        /\ pts[i].tags.protocol = line.Type
        /\ Renders(pts[i].tags.endpoint_type, line.msg.EndpointType)
        /\ Renders(pts[i].tags.endpoint_id, line.msg.EndpointID)
        /\ pts[i].tags.msg_type =
              IF line.Type \in DifferentialTypes /\ i > 1
              THEN "differential" ELSE "cumulative"

\* C18 happens: a NetIDM of the meter of type 12 has its cumulative point and two
\* interval points written.
C18_Witness ==
    /\ DifferentialProcessed
    /\ line.Type = "NetIDM"
    /\ line.msg.EndpointType = 12
    /\ Len(pts) = 3
    /\ pts[1].tags.msg_type = "cumulative"
    /\ pts[3].tags.msg_type = "differential"
    /\ sink = "ok"

\* C19: the interval field of the point of the reading idx of a differential
\* line is a slot in 0..255, the one that is congruent to c - idx modulo 256, c
\* being the line's ConsumptionIntervalCount, also when c < idx. (The points
\* gathered are those of the readings 0, 1, ... in order.)
C19_SlotArithmetic ==
    DifferentialProcessed =>
        \A i \in 1..DiffCount(pts) :
            /\ Differential(pts)[i].fields.interval \in 0..IntervalModulus - 1
            /\ \E q \in -1..0 :
                 Differential(pts)[i].fields.interval =
                    line.msg.IntervalIdx - (i - 1) - q * IntervalModulus

\* C19 happens: the message with c = 2 has its reading 5 written in slot 253.
C19_Witness ==
    /\ DifferentialProcessed
    /\ line.msg.IntervalIdx = 2
    /\ DiffCount(pts) = IntervalsPerMessage
    /\ Differential(pts)[6].fields.interval = 253
    /\ Differential(pts)[3].fields.interval = 0

\* The bits of the 6-byte outage field read as one big-endian number, the least
\* significant first: bit 0 is the lowest bit of the last byte, bit 47 the
\* highest bit of the first.
BitsOfByte(b) ==
    <<b % 2, (b \div 2) % 2, (b \div 4) % 2, (b \div 8) % 2,
      (b \div 16) % 2, (b \div 32) % 2, (b \div 64) % 2, (b \div 128) % 2>>
OutageField(outage) ==
    BitsOfByte(outage[6]) \o BitsOfByte(outage[5]) \o BitsOfByte(outage[4])
    \o BitsOfByte(outage[3]) \o BitsOfByte(outage[2]) \o BitsOfByte(outage[1])
BitSet(outage, b) == b \in 0..47 /\ OutageField(outage)[b + 1] = 1

\* The readings of the last line whose point carries the field outage, which is
\* then 1. (No state is stored before the line, so the point of the reading idx
\* is the differential point idx + 1.)
OutageMarked ==
    { idx \in 0..DiffCount(pts) - 1 : "outage" \in DOMAIN Differential(pts)[idx + 1].fields }

\* C20: the point of the reading idx of a differential line carries the field
\* outage, equal to 1, exactly when bit 46 - idx of the 6-byte outage field, read
\* big-endian, is set; an all-ones field marks every one of the first 47 readings
\* and no other, an all-zero field marks none, and a single bit marks the one
\* reading it stands for.
C20_OutageBits ==
    (DifferentialProcessed /\ ~prior.seen) =>
        /\ DiffCount(pts) = Len(line.msg.IntervalDiff)
        /\ \A idx \in 0..DiffCount(pts) - 1 :
             /\ idx \in OutageMarked <=> BitSet(line.msg.Outage, 46 - idx)
             /\ idx \in OutageMarked => Differential(pts)[idx + 1].fields.outage = 1
        /\ line.msg.Outage = <<255, 255, 255, 255, 255, 255>> =>
             OutageMarked = (0..IntervalsPerMessage - 1) \cap (0..DiffCount(pts) - 1)
        /\ line.msg.Outage = NoOutage => OutageMarked = {}
        /\ (line.msg.Outage = <<64, 0, 0, 0, 0, 0>> /\ DiffCount(pts) > 0) => OutageMarked = {0}
        /\ (line.msg.Outage = <<0, 0, 0, 0, 0, 1>> /\ DiffCount(pts) > 46) => OutageMarked = {46}
        /\ (line.msg.Outage = <<0, 0, 0, 0, 1, 0>> /\ DiffCount(pts) > 38) => OutageMarked = {38}
        /\ line.msg.Outage = <<128, 0, 0, 0, 0, 0>> => OutageMarked = {}

\* C20 happens: a message of 48 readings with an all-ones outage field is
\* processed; its first 47 readings are marked and the 48th is not.
C20_Witness ==
    /\ DifferentialProcessed
    /\ line.msg.Outage = <<255, 255, 255, 255, 255, 255>>
    /\ DiffCount(pts) = IntervalsPerMessage + 1
    /\ OutageMarked = 0..IntervalsPerMessage - 1
    /\ Differential(pts)[IntervalsPerMessage].fields.outage = 1

\* The distance of two times.
Apart(t1, t2) == IF t1 >= t2 THEN t1 - t2 ELSE t2 - t1

\* The readings of the line l that fall on the stored slot of before.
OnStoredSlot(l, before) ==
    { idx \in 0..Len(l.msg.IntervalDiff) - 1 : SlotOf(l, idx) = before.state.Interval }

\* C21: when a reading of a differential message falls on the stored slot of its
\* meter, that reading and the older ones are suppressed exactly when the stored
\* time and the reading's time are less than 30 s apart; when they are 30 s or
\* more apart, in either direction, every reading of the message is emitted.
C21_ThresholdBoundary ==
    (DifferentialProcessed /\ prior.seen) =>
        \A idx \in OnStoredSlot(line, prior) :
            IF Apart(prior.state.Time, TimeOf(line, idx)) < 30 * TicksPerSecond
            THEN /\ DiffCount(pts) = idx
                 /\ EmittedIdx(line, pts) = 0..idx - 1
            ELSE /\ DiffCount(pts) = Len(line.msg.IntervalDiff)
                 /\ EmittedIdx(line, pts) = 0..Len(line.msg.IntervalDiff) - 1

\* C21 happens: the reading 1 of a message of MaxReadings readings falls on the
\* stored slot exactly 30 s after the stored time, and every reading is emitted.
C21_Witness ==
    /\ DifferentialProcessed
    /\ prior.seen
    /\ 1 \in OnStoredSlot(line, prior)
    /\ TimeOf(line, 1) - prior.state.Time = 30 * TicksPerSecond
    /\ Len(line.msg.IntervalDiff) = MaxReadings
    /\ DiffCount(pts) = MaxReadings

\* The identity of the meter of the line l: serial, type and the line's Type.
Identity(l) ==
    [EndpointID |-> l.msg.EndpointID, EndpointType |-> l.msg.EndpointType,
     Protocol |-> l.Type]

\* The mirror with the entries of every identity but x taken out.
Own(mirror, x) == [y \in DOMAIN mirror \cap {x} |-> mirror[y]]

\* C22: a differential message leaves the mirror's entry and the stored pair of
\* every identity but its own as they were, and the points it emits are those it
\* would emit if the mirror held no identity but its own: an identity that
\* differs in serial, type or protocol tag (IDM against NetIDM) has no part in
\* them.
C22_IdentitySeparation ==
    [][DifferentialProcessed' =>
          /\ \A x \in DOMAIN m :
                x # Identity(line') => x \in DOMAIN m' /\ m'[x] = m[x]
          /\ \A k \in DOMAIN kv :
                k # <<line'.msg.EndpointID, line'.msg.EndpointType, line'.Type>> =>
                    k \in DOMAIN kv' /\ kv'[k] = kv[k]
          /\ pts' = IDMAddPoints(line'.msg, line', bucket, kv,
                                 Own(m, Identity(line')), "none").pts]_vars

\* C22 happens: a NetIDM message is read while the mirror holds, under IDM, the
\* same serial and type at the slot and time of its newest reading and nothing
\* under NetIDM; all its readings are emitted and the IDM entry stays.
C22_Witness ==
    /\ DifferentialProcessed
    /\ line.Type = "NetIDM"
    /\ ~prior.seen
    /\ Len(line.msg.IntervalDiff) > 0
    /\ DiffCount(pts) = Len(line.msg.IntervalDiff)
    /\ updErr = "nil"
    /\ \E x \in DOMAIN m :
          /\ x.Protocol = "IDM"
          /\ x.EndpointID = line.msg.EndpointID
          /\ x.EndpointType = line.msg.EndpointType
          /\ m[x] = [Time |-> TimeOf(line, 0), Interval |-> SlotOf(line, 0)]

\* The last step handed a cumulative line to its AddPoints.
CumulativeProcessed ==
    outcome = "processed" /\ line.Type \in CumulativeTypes

ReadsLine == nread' = nread + 1

\* C24: a line is read only once NewMeterMap has returned, and the first line
\* finds in the mirror every pair of the store; a line is read after another
\* only when the points of that one, if it came to points, were written by its
\* one call of WritePoint; a line that comes to no points has no call; and a
\* differential line read after a line of the same meter whose update committed
\* finds that line's state in the mirror.
C24_PipelineOrder ==
    /\ [](JustStarted =>
             /\ loadErr = "nil"
             /\ \A k \in DOMAIN kv :
                   Lookup(m, Meter(k[1], k[2], k[3])) =
                      [seen |-> TRUE, state |-> UnmarshalLastMessage(kv[k]).msg])
    /\ [](sink # "not_called" <=> outcome = "processed")
    /\ [][ReadsLine =>
            /\ pc = "scan"
            /\ loadErr # "not_called"
            /\ outcome = "processed" => sink = "ok"
            /\ (/\ DifferentialProcessed
                /\ updErr = "nil"
                /\ DifferentialProcessed'
                /\ Identity(line') = Identity(line))
               => prior' = [seen |-> TRUE,
                            state |-> [Time |-> TimeOf(line, 0),
                                       Interval |-> line.msg.IntervalIdx]]]_vars

\* C24 happens: the store is empty to begin with; the second line of the first
\* run is a differential message of the meter of the first line, 5 minutes on; it
\* finds the state the first committed, has its newest reading written and the
\* older ones not.
C24_Witness ==
    /\ DifferentialProcessed
    /\ nread = 2
    /\ runs = 1
    /\ prevOK
    /\ ~same
    /\ sink = "ok"
    /\ chain.scratch
    /\ prior = [seen |-> TRUE,
                state |-> [Time |-> TimeOf(line, 1), Interval |-> SlotOf(line, 1)]]
    /\ Len(line.msg.IntervalDiff) = MaxReadings
    /\ DiffCount(pts) = 1

\* C25: every IDM or NetIDM message handed to AddPoints emits exactly one
\* cumulative point, the first of its points, at the arrival time minus the
\* transmit offset, whatever the mirror held and however many readings are
\* suppressed; its fields are consumption (LastConsumptionCount) for an IDM and
\* consumption, generation and consumption_net (LastConsumption, LastGeneration,
\* LastConsumptionNet) for a NetIDM.
C25_CumulativeOfDifferential ==
    DifferentialProcessed =>
        /\ Len(pts) >= 1
        /\ pts[1].tags.msg_type = "cumulative"
        /\ \A i \in 2..Len(pts) : pts[i].tags.msg_type # "cumulative"
        /\ pts[1].t * 16 = line.Time * 16 - line.msg.TransmitTime * TicksPerSecond
        /\ line.Type = "IDM" =>
              pts[1].fields = [consumption |-> line.msg.IDMConsumption]
        /\ line.Type = "NetIDM" =>
              pts[1].fields = [consumption |-> line.msg.NetIDMConsumption,
                               generation |-> line.msg.NetIDMGeneration,
                               consumption_net |-> line.msg.NetIDMConsumptionNet]

\* C25 happens: a NetIDM message with readings is replayed, all its readings are
\* suppressed, and its cumulative point is emitted with the three fields.
C25_Witness ==
    /\ DifferentialProcessed
    /\ line.Type = "NetIDM"
    /\ same
    /\ prevOK
    /\ Len(line.msg.IntervalDiff) > 0
    /\ Len(pts) = 1
    /\ pts[1].tags.msg_type = "cumulative"
    /\ pts[1].fields = [consumption |-> 2000, generation |-> 4000,
                        consumption_net |-> 3000]

\* The state a differential line l stores: its anchor and its current interval.
StateOf(l) == [Time |-> TimeOf(l, 0), Interval |-> l.msg.IntervalIdx]

\* C26: after a differential message whose Update committed, the mirror and the
\* store hold for its meter the message's anchor and interval index, whatever
\* they held before and whatever was emitted: also when every reading was
\* suppressed, when the message is older than the state held, and when it is a
\* replay.
C26_StateIsLatestSeen ==
    (DifferentialProcessed /\ updErr = "nil") =>
        /\ Lookup(m, Identity(line)) = [seen |-> TRUE, state |-> StateOf(line)]
        /\ bucket
        /\ <<line.msg.EndpointID, line.msg.EndpointType, line.Type>> \in DOMAIN kv
        /\ UnmarshalLastMessage(
              kv[<<line.msg.EndpointID, line.msg.EndpointType, line.Type>>]) =
                 [ok |-> TRUE, msg |-> StateOf(line)]

\* C26 happens: a message arrives whose anchor is earlier than the time the
\* mirror held for its meter, and the mirror holds the earlier time after it.
C26_Witness ==
    /\ DifferentialProcessed
    /\ updErr = "nil"
    /\ prior.seen
    /\ prior.state.Time > TimeOf(line, 0)
    /\ m[Identity(line)] = StateOf(line)
    /\ m[Identity(line)].Time < prior.state.Time

\* C27 as claimed: the state of a differential message of a meter without prior
\* state is persisted only after the message's readings were emitted, so the
\* store holds the meter's state only if all the readings reached the sink.
C27_EmitThenPersist ==
    (/\ DifferentialProcessed
     /\ ~prior.seen
     /\ <<line.msg.EndpointID, line.msg.EndpointType, line.Type>> \in DOMAIN kv)
    => /\ sink = "ok"
       /\ DiffCount(pts) = Len(line.msg.IntervalDiff)

\* Nanoseconds in a second, the unit of time.Duration.
NanosPerSecond == 1000000000

\* C28: for every TransmitTimeOffset t in 0..65535 the cumulative point of the
\* message is timestamped at the arrival minus t sixteenths of a second
\* (62,500,000 ns each: the product t * 10^9 is below 2^46 and a multiple of 16,
\* so the Duration neither overflows nor rounds), and the point of the reading
\* idx is timestamped 5 minutes * idx before that, with the fields consumption,
\* the reading's value, and interval, its slot.
C28_TimestampArithmetic ==
    /\ NanosPerTick * 16 = NanosPerSecond
    /\ MaxTransmitTime < Pow2(16) /\ NanosPerSecond < Pow2(30) /\ 16 + 30 < 63
    /\ (DifferentialProcessed /\ ~prior.seen) =>
          /\ line.msg.TransmitTime \in 0..MaxTransmitTime
          /\ Len(pts) = Len(line.msg.IntervalDiff) + 1
          /\ pts[1].t = line.Time - line.msg.TransmitTime
          /\ \A idx \in 0..Len(line.msg.IntervalDiff) - 1 :
                /\ pts[idx + 2].t = pts[1].t - idx * (5 * 60 * 16)
                /\ pts[idx + 2].fields.consumption = line.msg.IntervalDiff[idx + 1]
                /\ pts[idx + 2].fields.interval = SlotOf(line, idx)
                /\ pts[idx + 2].tags.msg_type = "differential"

\* C28 happens: the message with the largest TransmitTimeOffset has its two
\* readings timestamped 4095.9375 s and 4395.9375 s before its arrival.
C28_Witness ==
    /\ DifferentialProcessed
    /\ line.msg.TransmitTime = 65535
    /\ Len(pts) = 3
    /\ pts[2].t = line.Time - 65535
    /\ pts[3].t = line.Time - 65535 - 4800
    /\ pts[3].fields.interval = 255

\* The mirror and the store hold the same mapping: the store has a pair for
\* exactly the meters of the mirror, and each pair decodes to the mirror's entry.
MirrorIsStore ==
    /\ DOMAIN kv = { <<x.EndpointID, x.EndpointType, x.Protocol>> : x \in DOMAIN m }
    /\ \A x \in DOMAIN m :
          UnmarshalLastMessage(kv[<<x.EndpointID, x.EndpointType, x.Protocol>>]) =
             [ok |-> TRUE, msg |-> m[x]]

\* C29: from the moment a preload has succeeded, between any two lines, the
\* mirror and the store hold the same mapping, whether the updates so far
\* committed or failed; and no step takes a key out of the store, nor, while the
\* process runs, a meter out of the mirror.
C29_WriteThrough ==
    /\ []((loadErr = "nil" /\ pc \in {"scan", "exit", "fatal"}) => MirrorIsStore)
    /\ [][/\ DOMAIN kv \subseteq DOMAIN kv'
          /\ (pc = "scan" => DOMAIN m \subseteq DOMAIN m')]_vars

\* C29 happens: in one run an update commits and the next one fails, and the
\* mirror and the store hold the same pairs after it, those of the first.
C29_Witness ==
    /\ pc = "scan"
    /\ nread = 2
    /\ runs = 1
    /\ prevOK
    /\ DifferentialProcessed
    /\ updErr \notin {"nil", "not_called"}
    /\ m # EmptyMap
    /\ MirrorIsStore
    /\ Lookup(m, Identity(line)) = prior

\* The i-th differential point of the last line is the point of its reading idx.
PointOf(i, idx) ==
    /\ Differential(pts)[i].t = TimeOf(line, idx)
    /\ Differential(pts)[i].fields.interval = SlotOf(line, idx)
    /\ Differential(pts)[i].fields.consumption = line.msg.IntervalDiff[idx + 1]

\* C30: the differential points of a message are those of a prefix of its
\* readings, newest first: for some k they are the points of the readings 0, 1,
\* ..., k - 1 in that order, no point of a reading from k on follows, and k is
\* short of the number of readings only where the reading k falls on the stored
\* slot.
C30_EmittedPrefix ==
    DifferentialProcessed =>
        /\ DiffCount(pts) <= Len(line.msg.IntervalDiff)
        /\ \A i \in 1..DiffCount(pts) : PointOf(i, i - 1)
        /\ EmittedIdx(line, pts) = 0..DiffCount(pts) - 1
        /\ DiffCount(pts) < Len(line.msg.IntervalDiff) =>
              /\ prior.seen
              /\ SlotOf(line, DiffCount(pts)) = prior.state.Interval

\* C30 happens: of a message of MaxReadings readings the two newest are emitted,
\* in order, and the reading 2, which falls on the stored slot, and what is older
\* are not.
C30_Witness ==
    /\ DifferentialProcessed
    /\ MaxReadings >= 3
    /\ Len(line.msg.IntervalDiff) = MaxReadings
    /\ DiffCount(pts) = 2
    /\ PointOf(1, 0)
    /\ PointOf(2, 1)
    /\ prior.seen
    /\ SlotOf(line, 2) = prior.state.Interval

\* C31: on a finite input and with no failure of the sink, every line is read and
\* handled exactly once, in order, and the process then ends at the end of the
\* input: when main has returned from the loop, the lines the loop body ran on
\* are the lines of the input, each once and in the input's order.
C31_AsClaimed ==
    pc = "exit" => stdin.handled = stdin.input

====
